---------------------------- MODULE Spec2Model ----------------------------
(***************************************************************************)
(* Model of the spine-leaf-server topology visualizer                       *)
(* (src/components/NetworkScene.tsx): the layout generator, the full-mesh,  *)
(* highlight and escape-route geometry builders, and the React state of     *)
(* the NetworkScene component that feeds them.                              *)
(*                                                                         *)
(* Coordinates are fixed-point: one unit of the source is Unit (= 8) model  *)
(* units, so that every coordinate the code computes (halves for the        *)
(* centred rows, eighths for the sampled Bezier curve) is an integer.       *)
(***************************************************************************)
EXTENDS Integers, Sequences, FiniteSets

\* ------------------------------------------------------------------ bounds
\* Largest cluster count explored.
MaxClusters == 3
\* Pointer events are sampled: every HoverStride-th instance of a mesh (and
\* its last instance) can be hovered.
HoverStride == 250

\* --------------------------------------------------------- fixed point unit
Unit == 8

\* ------------------------------------------------- constants for the layout
SPINE_COUNT == 64
LEAF_GROUPS == 16
LEAFS_PER_GROUP == 8
\* heights, in model units (source value * Unit)
SPINE_Y == 15 * Unit
LEAF_Y == (-5) * Unit
SERVER_Y == (-25) * Unit
\* SPINE_SPACING is 2.5 in the source: 5/2
SPINE_SPACING == (5 * Unit) \div 2
GROUP_SPACING == 10 * Unit
LEAF_LOCAL_SPACING_Z == 2 * Unit
CLUSTER_SPACING_Z == 60 * Unit
SERVERS_PER_GROUP_STD == 64
SERVERS_LAST_GROUP == 56
SERVER_SPACING == 1 * Unit
\* the group index that receives SERVERS_LAST_GROUP servers (line 368)
LAST_SERVER_GROUP == 15
\* curveDepth of the escape curves (line 254) and the getPoints(20) divisions
curveDepth == 25 * Unit
CURVE_DIVISIONS == 20

\* An optional field (clusterId?, groupId?) that is absent.
Undefined == -1

\* THREE.Vector3
Vec(x, y, z) == <<x, y, z>>

\* --------------------------------------------------------------- the layout
\* clusterZOffset = c * CLUSTER_SPACING_Z * -1
clusterZOffset(c) == c * CLUSTER_SPACING_Z * (-1)

\* totalSpineWidth = (SPINE_COUNT - 1) * SPINE_SPACING; spineStartX = -totalSpineWidth / 2
totalSpineWidth == (SPINE_COUNT - 1) * SPINE_SPACING
spineStartX == (-totalSpineWidth) \div 2

\* totalGroupWidth = (LEAF_GROUPS - 1) * GROUP_SPACING; groupStartX = -totalGroupWidth / 2
totalGroupWidth == (LEAF_GROUPS - 1) * GROUP_SPACING
groupStartX == (-totalGroupWidth) \div 2

groupCenterX(g) == groupStartX + g * GROUP_SPACING

\* SpineNodes with the loop bound off by one ("i < SPINE_COUNT - 1").
SpineNodes_OneShort(c, startId) ==
  [k \in 1..(SPINE_COUNT - 1) |->
     LET i == k - 1 IN
     [ id        |-> startId + i,
       clusterId |-> c,
       type      |-> "spine",
       groupId   |-> Undefined,
       position  |-> Vec(spineStartX + i * SPINE_SPACING, SPINE_Y, clusterZOffset(c)),
       label     |-> <<"C", c + 1, "Spine", i + 1>> ]]

\* The spines of cluster c, the first of them taking id startId
\* (the inner loop "for i < SPINE_COUNT" with id: globalIdCounter++).
SpineNodes(c, startId) ==
  [k \in 1..SPINE_COUNT |->
     LET i == k - 1 IN
     [ id        |-> startId + i,
       clusterId |-> c,
       type      |-> "spine",
       groupId   |-> Undefined,
       position  |-> Vec(spineStartX + i * SPINE_SPACING, SPINE_Y, clusterZOffset(c)),
       label     |-> <<"C", c + 1, "Spine", i + 1>> ]]

\* zOffset = (l - (LEAFS_PER_GROUP - 1) / 2) * LEAF_LOCAL_SPACING_Z
leafZOffset(l) == ((2 * l - (LEAFS_PER_GROUP - 1)) * LEAF_LOCAL_SPACING_Z) \div 2

\* The leafs of cluster c in insertion order (g outer, l inner).
LeafNodes(c, startId) ==
  [k \in 1..(LEAF_GROUPS * LEAFS_PER_GROUP) |->
     LET g == (k - 1) \div LEAFS_PER_GROUP
         l == (k - 1) % LEAFS_PER_GROUP
     IN
     [ id        |-> startId + (k - 1),
       clusterId |-> c,
       type      |-> "leaf",
       groupId   |-> g,
       position  |-> Vec(groupCenterX(g), LEAF_Y, leafZOffset(l) + clusterZOffset(c)),
       label     |-> <<"C", c + 1, "Leaf-G", g + 1, l + 1>> ]]

\* The loop over the clusters c, c+1, .. clusterCount-1; acc carries the two
\* sequences built so far and globalIdCounter.
RECURSIVE GenClusters(_, _, _)
GenClusters(c, count, acc) ==
  IF c >= count THEN acc
  ELSE
    LET sp == SpineNodes(c, acc.globalIdCounter)
        lf == LeafNodes(c, acc.globalIdCounter + Len(sp))
    IN GenClusters(c + 1, count,
         [ spines |-> acc.spines \o sp,
           leafs  |-> acc.leafs \o lf,
           globalIdCounter |-> acc.globalIdCounter + Len(sp) + Len(lf) ])

\* baseZ = clusterCount > 1 ? (0 + (CLUSTER_SPACING_Z * -1)) / 2 : 0
baseZ(count) == IF count > 1 THEN (0 + (CLUSTER_SPACING_Z * (-1))) \div 2 ELSE 0

\* serverCount testing the group number instead of the 0-based index ("g === 16").
serverCount_OneBased(g) == IF g = LAST_SERVER_GROUP + 1 THEN SERVERS_LAST_GROUP ELSE SERVERS_PER_GROUP_STD

\* serverCount = (g === 15) ? SERVERS_LAST_GROUP : SERVERS_PER_GROUP_STD
serverCount(g) == IF g = LAST_SERVER_GROUP THEN SERVERS_LAST_GROUP ELSE SERVERS_PER_GROUP_STD

\* The servers of group g.  zOffset = s * SERVER_SPACING - totalLength / 2
ServerNodes(g, startId, count) ==
  [k \in 1..serverCount(g) |->
     LET s == k - 1
         totalLength == (serverCount(g) - 1) * SERVER_SPACING
         zOffset == (2 * s * SERVER_SPACING - totalLength) \div 2
     IN
     [ id        |-> startId + s,
       clusterId |-> Undefined,
       type      |-> "server",
       groupId   |-> g,
       position  |-> Vec(groupCenterX(g), SERVER_Y, baseZ(count) + zOffset),
       label     |-> <<"Server-G", g + 1, s + 1>> ]]

\* The loop over the server groups g .. LEAF_GROUPS-1.
RECURSIVE GenServers(_, _, _)
GenServers(g, count, acc) ==
  IF g >= LEAF_GROUPS THEN acc
  ELSE
    LET sv == ServerNodes(g, acc.globalIdCounter, count)
    IN GenServers(g + 1, count,
         [ servers |-> acc.servers \o sv,
           globalIdCounter |-> acc.globalIdCounter + Len(sv) ])

\* GenerateLayout with the server ids counted from 0 again (a second counter).
GenerateLayout_ServerIdsFromZero(count, serverMode) ==
  LET cl == GenClusters(0, count, [spines |-> <<>>, leafs |-> <<>>, globalIdCounter |-> 0])
      sv == IF serverMode
            THEN GenServers(0, count, [servers |-> <<>>, globalIdCounter |-> 0])
            ELSE [servers |-> <<>>, globalIdCounter |-> cl.globalIdCounter]
  IN [spines |-> cl.spines, leafs |-> cl.leafs, servers |-> sv.servers]

\* GenerateLayout with globalIdCounter started at the cluster count instead of 0.
GenerateLayout_CounterFromCount(count, serverMode) ==
  LET cl == GenClusters(0, count, [spines |-> <<>>, leafs |-> <<>>, globalIdCounter |-> count])
      sv == IF serverMode
            THEN GenServers(0, count, [servers |-> <<>>, globalIdCounter |-> cl.globalIdCounter])
            ELSE [servers |-> <<>>, globalIdCounter |-> cl.globalIdCounter]
  IN [spines |-> cl.spines, leafs |-> cl.leafs, servers |-> sv.servers]

\* The useMemo that builds the layout from clusterCount and isServerMode.
GenerateLayout(count, serverMode) ==
  LET cl == GenClusters(0, count, [spines |-> <<>>, leafs |-> <<>>, globalIdCounter |-> 0])
      sv == IF serverMode
            THEN GenServers(0, count, [servers |-> <<>>, globalIdCounter |-> cl.globalIdCounter])
            ELSE [servers |-> <<>>, globalIdCounter |-> cl.globalIdCounter]
  IN [spines |-> cl.spines, leafs |-> cl.leafs, servers |-> sv.servers]


\* ------------------------------------------------------- geometry builders
\* One line segment of a geometry buffer: the two points pushed for it.
Segment(p1, p2) == <<p1, p2>>

\* The concatenation rows[lo] \o ... \o rows[hi] (points.push in loop order).
RECURSIVE Flatten(_, _, _)
Flatten(rows, lo, hi) ==
  IF lo > hi THEN <<>>
  ELSE IF lo = hi THEN rows[lo]
  ELSE LET mid == (lo + hi) \div 2
       IN Flatten(rows, lo, mid) \o Flatten(rows, mid + 1, hi)

\* The segments pushed for the nodes `sel` that passed the test of one pass of
\* "nodes.forEach(n => if (test(n)) push(from, n))".
LinesFrom(from, sel) ==
  [j \in 1..Len(sel) |-> Segment(from.position, sel[j].position)]

\* StaticGeo with the group test of the server loop left out.
StaticGeo_NoGroupTest(lay) ==
  LET spineRows ==
        [i \in 1..Len(lay.spines) |->
           LET spine == lay.spines[i]
               SameCluster(leaf) == spine.clusterId = leaf.clusterId
           IN LinesFrom(spine, SelectSeq(lay.leafs, SameCluster))]
      serverRows ==
        [i \in 1..Len(lay.servers) |->
           LET server == lay.servers[i]
               Any(leaf) == leaf.groupId = leaf.groupId
           IN LinesFrom(server, SelectSeq(lay.leafs, Any))]
  IN Flatten(spineRows, 1, Len(lay.spines))
     \o (IF Len(lay.servers) > 0 THEN Flatten(serverRows, 1, Len(lay.servers)) ELSE <<>>)

\* Connections.staticGeo: the full mesh.
StaticGeo(lay) ==
  LET spineRows ==
        [i \in 1..Len(lay.spines) |->
           LET spine == lay.spines[i]
               SameCluster(leaf) == spine.clusterId = leaf.clusterId
           IN LinesFrom(spine, SelectSeq(lay.leafs, SameCluster))]
      serverRows ==
        [i \in 1..Len(lay.servers) |->
           LET server == lay.servers[i]
               SameGroup(leaf) == leaf.groupId = server.groupId
           IN LinesFrom(server, SelectSeq(lay.leafs, SameGroup))]
  IN Flatten(spineRows, 1, Len(lay.spines))
     \o (IF Len(lay.servers) > 0 THEN Flatten(serverRows, 1, Len(lay.servers)) ELSE <<>>)

\* hoveredNode === null
Null ==
  [ id |-> Undefined, clusterId |-> Undefined, type |-> "null", groupId |-> Undefined,
    position |-> Vec(0, 0, 0), label |-> <<>> ]

\* ActiveGeo with the server loop of the leaf branch left out.
ActiveGeo_LeafNoServers(lay, hovered) ==
  IF hovered = Null THEN <<>>
  ELSE IF hovered.type = "spine" THEN
    LET SameCluster(leaf) == leaf.clusterId = hovered.clusterId
    IN LinesFrom(hovered, SelectSeq(lay.leafs, SameCluster))
  ELSE IF hovered.type = "leaf" THEN
    LET SameCluster(spine) == spine.clusterId = hovered.clusterId
    IN LinesFrom(hovered, SelectSeq(lay.spines, SameCluster))
  ELSE IF hovered.type = "server" THEN
    LET SameGroup(leaf) == leaf.groupId = hovered.groupId
    IN LinesFrom(hovered, SelectSeq(lay.leafs, SameGroup))
  ELSE <<>>

\* ActiveGeo with the server branch kept to the leafs of the first cluster.
ActiveGeo_ServerFirstCluster(lay, hovered) ==
  IF hovered = Null THEN <<>>
  ELSE IF hovered.type = "spine" THEN
    LET SameCluster(leaf) == leaf.clusterId = hovered.clusterId
    IN LinesFrom(hovered, SelectSeq(lay.leafs, SameCluster))
  ELSE IF hovered.type = "leaf" THEN
    LET SameCluster(spine) == spine.clusterId = hovered.clusterId
        SameGroup(server) == server.groupId = hovered.groupId
    IN LinesFrom(hovered, SelectSeq(lay.spines, SameCluster)) \o LinesFrom(hovered, SelectSeq(lay.servers, SameGroup))
  ELSE IF hovered.type = "server" THEN
    LET SameGroup(leaf) == leaf.groupId = hovered.groupId /\ leaf.clusterId = 0
    IN LinesFrom(hovered, SelectSeq(lay.leafs, SameGroup))
  ELSE <<>>

\* Connections.activeGeo: the highlight of the hovered node (<<>> for null).
ActiveGeo(lay, hovered) ==
  IF hovered = Null THEN <<>>
  ELSE IF hovered.type = "spine" THEN
    LET SameCluster(leaf) == leaf.clusterId = hovered.clusterId
    IN LinesFrom(hovered, SelectSeq(lay.leafs, SameCluster))
  ELSE IF hovered.type = "leaf" THEN
    LET SameCluster(spine) == spine.clusterId = hovered.clusterId
        SameGroup(server) == server.groupId = hovered.groupId
    IN LinesFrom(hovered, SelectSeq(lay.spines, SameCluster)) \o LinesFrom(hovered, SelectSeq(lay.servers, SameGroup))
  ELSE IF hovered.type = "server" THEN
    LET SameGroup(leaf) == leaf.groupId = hovered.groupId
    IN LinesFrom(hovered, SelectSeq(lay.leafs, SameGroup))
  ELSE <<>>

\* ---------------------------------------------------------- escape routes
LEAFS_PER_CLUSTER == LEAF_GROUPS * LEAFS_PER_GROUP
\* LAST_GROUP_OFFSET one group too far.
LAST_GROUP_OFFSET_OneGroupOff == LEAF_GROUPS * LEAFS_PER_GROUP
LAST_GROUP_OFFSET == (LEAF_GROUPS - 1) * LEAFS_PER_GROUP

\* layout.leafs[idx] for a 0-based idx: undefined past the end of the array.
LeafAt(lay, idx) == IF idx + 1 \in DOMAIN lay.leafs THEN lay.leafs[idx + 1] ELSE Null

\* The (leafA, leafB) pairs the two loops of EscapeConnections visit and that
\* pass "if (leafA && leafB)", in loop order.
EscapePairs(lay, active, count) ==
  IF ~active \/ count < 2 THEN <<>>
  ELSE
    LET all == [n \in 1..((count - 1) * LEAFS_PER_GROUP) |->
                  LET c == (n - 1) \div LEAFS_PER_GROUP
                      i == (n - 1) % LEAFS_PER_GROUP
                      startIdxA == (c * LEAFS_PER_CLUSTER) + LAST_GROUP_OFFSET
                      startIdxB == ((c + 1) * LEAFS_PER_CLUSTER) + LAST_GROUP_OFFSET
                  IN <<LeafAt(lay, startIdxA + i), LeafAt(lay, startIdxB + i)>>]
        Both(p) == p[1] # Null /\ p[2] # Null
    IN SelectSeq(all, Both)

\* QuadraticBezierCurve3(start, control, end).getPoint(k / CURVE_DIVISIONS),
\* one coordinate: (1-t)^2 v0 + 2(1-t)t v1 + t^2 v2.
Bezier(k, v0, v1, v2) ==
  LET n == CURVE_DIVISIONS
  IN ((n - k) * (n - k) * v0 + 2 * (n - k) * k * v1 + k * k * v2) \div (n * n)

\* curve.getPoints(CURVE_DIVISIONS): CURVE_DIVISIONS + 1 points.
CurvePoints(start, end) ==
  LET midX == (start[1] + end[1]) \div 2
      midY == (start[2] + end[2]) \div 2
      midZ == (start[3] + end[3]) \div 2
      controlPoint == Vec(midX, midY - curveDepth, midZ)
  IN [k1 \in 1..(CURVE_DIVISIONS + 1) |->
        LET k == k1 - 1
        IN Vec(Bezier(k, start[1], controlPoint[1], end[1]),
               Bezier(k, start[2], controlPoint[2], end[2]),
               Bezier(k, start[3], controlPoint[3], end[3]))]

\* The sub-segments of one curve: (curvePoints[k], curvePoints[k+1]).
CurveSegments(start, end) ==
  LET pts == CurvePoints(start, end)
  IN [k \in 1..(Len(pts) - 1) |-> Segment(pts[k], pts[k + 1])]

\* EscapeConnections.geometry (<<>> stands for the null geometry).
EscapeGeo(lay, active, count) ==
  LET pairs == EscapePairs(lay, active, count)
      rows == [n \in 1..Len(pairs) |-> CurveSegments(pairs[n][1].position, pairs[n][2].position)]
  IN Flatten(rows, 1, Len(pairs))

\* -------------------------------------------------------------- the state
VARIABLES
  hoveredNode,      \* useState<NodeData | null>(null)
  clusterCount,     \* useState(1)
  isEscapeMode,     \* useState(false)
  isServerMode,     \* useState(false)
  isAutoAnimating,  \* useState(false)
  layout,           \* the memoized layout of (clusterCount, isServerMode)
  timers            \* the pending setTimeout callbacks, in firing order

vars == <<hoveredNode, clusterCount, isEscapeMode, isServerMode, isAutoAnimating, layout, timers>>

\* The state after the first render of NetworkScene.
Init ==
  /\ hoveredNode = Null
  /\ clusterCount = 1
  /\ isEscapeMode = FALSE
  /\ isServerMode = FALSE
  /\ isAutoAnimating = FALSE
  /\ layout = GenerateLayout(1, FALSE)
  /\ timers = <<>>

\* The builders applied to arbitrary props: any cluster count from 0, either
\* server visibility, either escape flag.
InitGen ==
  /\ hoveredNode = Null
  /\ clusterCount \in 0..MaxClusters
  /\ isEscapeMode \in BOOLEAN
  /\ isServerMode \in BOOLEAN
  /\ isAutoAnimating = FALSE
  /\ layout = GenerateLayout(clusterCount, isServerMode)
  /\ timers = <<>>

\* The instances of a mesh the pointer is sampled over.
HoverSample(data) == {i \in 1..Len(data) : (i - 1) % HoverStride = 0 \/ i = Len(data)}

\* onPointerOver of an instanced mesh drawing `data`: onHover(data[instanceId]).
PointerOver(data) ==
  /\ \E i \in HoverSample(data) : hoveredNode' = data[i]
  /\ UNCHANGED <<clusterCount, isEscapeMode, isServerMode, isAutoAnimating, layout, timers>>

\* The three NodeInstances of the scene.
PointerOverSpines == PointerOver(layout.spines)
PointerOverLeafs == PointerOver(layout.leafs)
PointerOverServers == PointerOver(layout.servers)

\* onPointerOut: onHover(null).
PointerOut ==
  /\ hoveredNode' = Null
  /\ UNCHANGED <<clusterCount, isEscapeMode, isServerMode, isAutoAnimating, layout, timers>>

\* AddCluster with the updater subtracting ("c => c - 1").
AddCluster_Decrement ==
  /\ ~isAutoAnimating
  /\ clusterCount < MaxClusters
  /\ clusterCount' = clusterCount - 1
  /\ layout' = GenerateLayout(clusterCount', isServerMode)
  /\ UNCHANGED <<hoveredNode, isEscapeMode, isServerMode, isAutoAnimating, timers>>

\* ADD_CLUSTER button (disabled while the auto sequence runs).
AddCluster ==
  /\ ~isAutoAnimating
  /\ clusterCount < MaxClusters
  /\ clusterCount' = clusterCount + 1
  /\ layout' = GenerateLayout(clusterCount', isServerMode)
  /\ UNCHANGED <<hoveredNode, isEscapeMode, isServerMode, isAutoAnimating, timers>>

\* ESCAPE button.
ToggleEscape ==
  /\ ~isAutoAnimating
  /\ isEscapeMode' = ~isEscapeMode
  /\ UNCHANGED <<hoveredNode, clusterCount, isServerMode, isAutoAnimating, layout, timers>>

\* SERVERS button.
ToggleServer ==
  /\ ~isAutoAnimating
  /\ isServerMode' = ~isServerMode
  /\ layout' = GenerateLayout(clusterCount, isServerMode')
  /\ UNCHANGED <<hoveredNode, clusterCount, isEscapeMode, isAutoAnimating, timers>>

\* RunAutoSequence without "if (isAutoAnimating) return" and with the button
\* left enabled.
RunAutoSequence_NoGuard ==
  /\ clusterCount < MaxClusters
  /\ isAutoAnimating' = TRUE
  /\ clusterCount' = clusterCount + 1
  /\ layout' = GenerateLayout(clusterCount', isServerMode)
  /\ timers' = <<"escape", "server">>
  /\ UNCHANGED <<hoveredNode, isEscapeMode, isServerMode>>

\* AUTO_SEQ button: runAutoSequence.
RunAutoSequence ==
  /\ ~isAutoAnimating
  /\ clusterCount < MaxClusters
  /\ isAutoAnimating' = TRUE
  /\ clusterCount' = clusterCount + 1
  /\ layout' = GenerateLayout(clusterCount', isServerMode)
  /\ timers' = <<"escape", "server">>
  /\ UNCHANGED <<hoveredNode, isEscapeMode, isServerMode>>

\* The 2000 ms timeout.
TimerEscape ==
  /\ timers # <<>> /\ Head(timers) = "escape"
  /\ isEscapeMode' = ~isEscapeMode
  /\ timers' = Tail(timers)
  /\ UNCHANGED <<hoveredNode, clusterCount, isServerMode, isAutoAnimating, layout>>

\* The 4000 ms timeout.
TimerServer ==
  /\ timers # <<>> /\ Head(timers) = "server"
  /\ isServerMode' = ~isServerMode
  /\ isAutoAnimating' = FALSE
  /\ layout' = GenerateLayout(clusterCount, isServerMode')
  /\ timers' = Tail(timers)
  /\ UNCHANGED <<hoveredNode, clusterCount, isEscapeMode>>

Next ==
  \/ PointerOverSpines
  \/ PointerOverLeafs
  \/ PointerOverServers
  \/ PointerOut
  \/ AddCluster
  \/ ToggleEscape
  \/ ToggleServer
  \/ RunAutoSequence
  \/ TimerEscape
  \/ TimerServer

Spec == Init /\ [][Next]_vars

SpecGen == InitGen /\ [][Next]_vars

\* The event loop runs the pending setTimeout callback `name`: it leaves the
\* queue (the step TimerEscape or TimerServer, seen on the timers alone).
TimerFires(name) ==
  /\ timers # <<>> /\ Head(timers) = name
  /\ timers' = Tail(timers)

\* The scene with its timers: a pending setTimeout callback is run by the
\* event loop once it is due, and the component is never unmounted.
SpecLive ==
  Init /\ [][Next]_vars /\ WF_timers(TimerFires("escape")) /\ WF_timers(TimerFires("server"))

\* The scene with the pointer kept to the spine mesh: the full mesh does not
\* read hoveredNode.
NextMesh ==
  \/ PointerOverSpines
  \/ PointerOut
  \/ AddCluster
  \/ ToggleEscape
  \/ ToggleServer
  \/ RunAutoSequence
  \/ TimerEscape
  \/ TimerServer

SpecMesh == InitGen /\ [][NextMesh]_vars


\* ------------------------------------------------------------------ claims
\* The elements of a sequence.
Range(seq) == {seq[i] : i \in DOMAIN seq}

\* The nodes of a layout, spines then leafs then servers.
AllNodes(lay) == lay.spines \o lay.leafs \o lay.servers

\* C1: for every cluster count C >= 0 and either server flag the layout has
\* exactly 64*C spines and 128*C leafs; C = 0 gives empty spine and leaf
\* sequences.
C1_SpineLeafCounts ==
  /\ Len(layout.spines) = 64 * clusterCount
  /\ Len(layout.leafs) = 128 * clusterCount
  /\ clusterCount = 0 => layout.spines = <<>> /\ layout.leafs = <<>>

\* C1 witness: the layout of zero clusters has been generated with servers
\* shown: no spine, no leaf, and the servers present.
C1_Witness ==
  /\ clusterCount = 0
  /\ isServerMode
  /\ layout.spines = <<>> /\ layout.leafs = <<>> /\ layout.servers # <<>>

\* C2: with servers enabled the layout has exactly 1016 servers whatever the
\* cluster count, 56 of them in group 15 and 64 in each of groups 0..14; with
\* servers disabled the server sequence is empty.
C2_ServerCounts ==
  LET InGroup(g) == {i \in DOMAIN layout.servers : layout.servers[i].groupId = g}
  IN /\ isServerMode =>
          /\ Len(layout.servers) = 1016
          /\ Cardinality(InGroup(15)) = 56
          /\ \A g \in 0..14 : Cardinality(InGroup(g)) = 64
          /\ \A i \in DOMAIN layout.servers : layout.servers[i].groupId \in 0..15
     /\ ~isServerMode => layout.servers = <<>>

\* C2 witness: servers are shown beside more than one cluster.
C2_Witness ==
  /\ isServerMode
  /\ clusterCount = MaxClusters
  /\ Len(layout.servers) = 1016

\* C3: in the layout current after any sequence of add-cluster and server
\* toggles no two nodes (spines, leafs and servers together) share an id.
C3_UniqueIds ==
  LET all == AllNodes(layout)
  IN Cardinality({all[i].id : i \in DOMAIN all}) = Len(all)

\* C3 witness: clusters were added and servers switched on, so that all three
\* kinds of node are present.
C3_Witness ==
  /\ clusterCount >= 2
  /\ isServerMode
  /\ layout.spines # <<>> /\ layout.leafs # <<>> /\ layout.servers # <<>>


\* The values of the field `key` among `nodes`.
Keys(nodes, key) == {nodes[i][key] : i \in DOMAIN nodes}

\* The positions of those of `nodes` whose field `key` is k.
PosOf(nodes, key, k) ==
  {nodes[i].position : i \in {j \in DOMAIN nodes : nodes[j][key] = k}}

\* The sum of |A| * |B| over the pairs <<A, B>> of S.
RECURSIVE SumProd(_)
SumProd(S) ==
  IF S = {} THEN 0
  ELSE LET x == CHOOSE y \in S : TRUE
       IN Cardinality(x[1]) * Cardinality(x[2]) + SumProd(S \ {x})

\* C4: the full mesh holds exactly one segment for every (spine, leaf) pair of
\* equal clusterId and exactly one for every (server, leaf) pair of equal
\* groupId, and no other segment (none across clusters or groups); one cluster
\* with servers off gives exactly 64*128 = 8192 segments.  Nodes are told
\* apart by their positions, which are pairwise different: every segment joins
\* a matching pair, no segment occurs twice, and there are as many segments
\* as matching pairs.
C4_FullMesh ==
  LET mesh == StaticGeo(layout)
      all == AllNodes(layout)
      byCluster ==
        { <<PosOf(layout.spines, "clusterId", k), PosOf(layout.leafs, "clusterId", k)>> :
            k \in Keys(layout.spines, "clusterId") \cup Keys(layout.leafs, "clusterId") }
      byGroup ==
        { <<PosOf(layout.servers, "groupId", g), PosOf(layout.leafs, "groupId", g)>> :
            g \in Keys(layout.servers, "groupId") }
      Joins(seg, S) == \E pr \in S : seg[1] \in pr[1] /\ seg[2] \in pr[2]
  IN /\ Cardinality({all[i].position : i \in DOMAIN all}) = Len(all)
     /\ \A n \in DOMAIN mesh : Joins(mesh[n], byCluster) \/ Joins(mesh[n], byGroup)
     /\ Cardinality(Range(mesh)) = Len(mesh)
     /\ Len(mesh) = SumProd(byCluster) + SumProd(byGroup)
     /\ (clusterCount = 1 /\ ~isServerMode) => Len(mesh) = 8192

\* C4 witness: a mesh over two clusters and the servers, where segments
\* across clusters and groups could be drawn.
C4_Witness ==
  /\ clusterCount = 2
  /\ isServerMode
  /\ Len(StaticGeo(layout)) = 2 * 8192 + 1016 * 16


\* The indexes of those of `nodes` whose field `key` is k.
IdxOf(nodes, key, k) == {i \in DOMAIN nodes : nodes[i][key] = k}

\* The segments from `from` to those of `nodes` whose field `key` is k.
Star(from, nodes, key, k) ==
  {Segment(from.position, nodes[i].position) : i \in IdxOf(nodes, key, k)}

\* C5: the highlight is empty without a focus; for a focused spine it is one
\* segment per leaf of the same clusterId (exactly 128 when clusterCount = 1);
\* for a focused leaf one per spine of the same clusterId plus one per server
\* of the same groupId; for a focused server one per leaf of the same groupId;
\* and nothing else.
C5_Highlight ==
  LET h == hoveredNode
      geo == ActiveGeo(layout, h)
  IN /\ h = Null => geo = <<>>
     /\ h.type = "spine" =>
          /\ Range(geo) = Star(h, layout.leafs, "clusterId", h.clusterId)
          /\ Len(geo) = Cardinality(IdxOf(layout.leafs, "clusterId", h.clusterId))
          /\ clusterCount = 1 => Len(geo) = 128
     /\ h.type = "leaf" =>
          /\ Range(geo) = Star(h, layout.spines, "clusterId", h.clusterId)
                            \cup Star(h, layout.servers, "groupId", h.groupId)
          /\ Len(geo) = Cardinality(IdxOf(layout.spines, "clusterId", h.clusterId))
                          + Cardinality(IdxOf(layout.servers, "groupId", h.groupId))
     /\ h.type = "server" =>
          /\ Range(geo) = Star(h, layout.leafs, "groupId", h.groupId)
          /\ Len(geo) = Cardinality(IdxOf(layout.leafs, "groupId", h.groupId))

\* C5 witness: a leaf of the last group is focused while servers are shown,
\* and is joined to 64 spines and 56 servers.
C5_Witness ==
  /\ hoveredNode.type = "leaf"
  /\ hoveredNode.groupId = 15
  /\ isServerMode
  /\ Len(ActiveGeo(layout, hoveredNode)) = 64 + 56

\* C6: the escape builder returns nothing when escape mode is off or
\* clusterCount < 2; otherwise, for every adjacent cluster pair (c, c+1) and
\* every within-group index i in 0..7, it joins leaf i of group 15 of cluster c
\* (at position c*128 + 120 + i of the leaf sequence) to leaf i of group 15 of
\* cluster c+1 by a chain of d >= 16 sub-segments, and joins nothing else; for
\* clusterCount = 2 that is exactly 8 leaf pairs.
C6_EscapeRoutes ==
  LET geo == EscapeGeo(layout, isEscapeMode, clusterCount)
      nPairs == 8 * (clusterCount - 1)
      d == Len(geo) \div nPairs
      LastGroup(c) ==
        LET InLast(leaf) == leaf.clusterId = c /\ leaf.groupId = 15
        IN SelectSeq(layout.leafs, InLast)
  IN IF ~isEscapeMode \/ clusterCount < 2 THEN geo = <<>>
     ELSE
       /\ d >= 16
       /\ Len(geo) = d * nPairs
       /\ clusterCount = 2 => Len(geo) = d * 8
       /\ \A c \in 0..(clusterCount - 2) : \A i \in 0..7 :
            LET n == c * 8 + i
                leafA == LastGroup(c)[i + 1]
                leafB == LastGroup(c + 1)[i + 1]
            IN /\ leafA = layout.leafs[c * 128 + 120 + i + 1]
               /\ leafB = layout.leafs[(c + 1) * 128 + 120 + i + 1]
               /\ geo[n * d + 1][1] = leafA.position
               /\ geo[(n + 1) * d][2] = leafB.position
               /\ \A k \in 1..(d - 1) : geo[n * d + k][2] = geo[n * d + k + 1][1]

\* C6 witness: escape routes are drawn between three clusters.
C6_Witness ==
  /\ isEscapeMode
  /\ clusterCount = 3
  /\ Len(EscapeGeo(layout, isEscapeMode, clusterCount)) >= 2 * 8 * 16

\* The node of the current layout with the id and type of h, if any.
Present(h) ==
  \E n \in Range(AllNodes(layout)) : n.id = h.id /\ n.type = h.type

\* C7: a focused node that is not present in the current topology (no node of
\* the same id and type) is treated as no focus: the highlight builder
\* produces no segments for it.
C7_StaleFocusIsNoFocus ==
  (hoveredNode # Null /\ ~Present(hoveredNode)) => ActiveGeo(layout, hoveredNode) = <<>>

\* C8: the base depth around which each server group is spread symmetrically
\* is the midpoint between depth 0 and the last cluster's depth offset
\* -(clusterCount-1)*CLUSTER_SPACING when clusterCount > 1, and 0 otherwise.
\* (Twice the base depth is compared, to stay in integers.)
C8_BaseDepthIsMidpoint ==
  LET twiceBase == IF clusterCount > 1 THEN 0 + (-(clusterCount - 1) * CLUSTER_SPACING_Z) ELSE 0
      Group(g) ==
        LET InGroup(server) == server.groupId = g
        IN SelectSeq(layout.servers, InGroup)
  IN \A g \in Keys(layout.servers, "groupId") :
       LET sv == Group(g)
       IN \A k \in DOMAIN sv :
            sv[k].position[3] + sv[Len(sv) + 1 - k].position[3] = twiceBase

\* C9 (as claimed): regenerating the layout with a larger clusterCount does
\* not preserve the earlier clusters' node ids: some spine or leaf that
\* existed before the increase has another id afterwards.
C9_IdsNotPreserved ==
  [][ (clusterCount' > clusterCount /\ clusterCount >= 1) =>
        \/ \E i \in DOMAIN layout.spines : layout'.spines[i].id # layout.spines[i].id
        \/ \E i \in DOMAIN layout.leafs : layout'.leafs[i].id # layout.leafs[i].id ]_vars

\* C9 (amended): regenerating the layout with a larger clusterCount keeps the
\* id of every spine and leaf of the earlier clusters; only the server ids
\* change, each growing by 192 per added cluster.
C9_SwitchIdsPreserved ==
  [][ clusterCount' > clusterCount =>
        /\ Len(layout'.spines) > Len(layout.spines)
        /\ \A i \in DOMAIN layout.spines : layout'.spines[i].id = layout.spines[i].id
        /\ \A i \in DOMAIN layout.leafs : layout'.leafs[i].id = layout.leafs[i].id
        /\ \A i \in DOMAIN layout.servers :
             i \in DOMAIN layout'.servers =>
               layout'.servers[i].id = layout.servers[i].id + 192 * (clusterCount' - clusterCount) ]_vars

\* C9 witness: a cluster was added while servers are shown; the switches of
\* the first cluster still start at id 0 and the servers follow the switches.
C9_Witness ==
  /\ clusterCount >= 2
  /\ isServerMode
  /\ layout.spines[1].id = 0
  /\ layout.servers[1].id = 192 * clusterCount

\* C10 (as claimed): the number of nodes the highlight joins to the focused
\* node is at most 72.
C10_AtMost72 == Len(ActiveGeo(layout, hoveredNode)) <= 72

\* C10 (amended): a focused spine or leaf is joined to at most 128 nodes
\* whatever the cluster count (the 128 leafs of its cluster, or the 64 spines
\* of its cluster and at most 64 servers of its group); a focused server is
\* joined to 8 leafs per cluster, 8 * clusterCount in all, which grows with
\* the cluster count.
C10_HighlightSize ==
  LET n == Len(ActiveGeo(layout, hoveredNode))
  IN /\ hoveredNode = Null => n = 0
     /\ hoveredNode.type \in {"spine", "leaf"} => n <= 128
     /\ hoveredNode.type = "server" => n = 8 * clusterCount

\* C10 witness: a server is focused beside three clusters and joined to 24 leafs.
C10_Witness ==
  /\ hoveredNode.type = "server"
  /\ clusterCount = 3
  /\ Len(ActiveGeo(layout, hoveredNode)) = 24


\* C11: over any sequence of UI events (add-cluster, escape toggle, server
\* toggle, hover, auto-sequence start and its timers) clusterCount never
\* decreases: it starts at 1 and every change of it is an increase.
C11_ClusterCountOnlyIncreases ==
  /\ clusterCount = 1
  /\ [][clusterCount' >= clusterCount]_vars

\* C11 witness: clusterCount was increased by the button and by the auto
\* sequence, which is still running.
C11_Witness ==
  /\ clusterCount = 3
  /\ isAutoAnimating


\* The controls' state: what the buttons and the auto sequence write.
controls == <<clusterCount, isEscapeMode, isServerMode, isAutoAnimating, timers>>

\* C12: at most one auto sequence runs at a time and every started one
\* finishes.  A start adds exactly one cluster and leaves both modes alone;
\* while isAutoAnimating holds no second start and no add-cluster, escape or
\* server control takes effect: the only changes are the escape flip of the
\* first timer (both timers still pending), then the server flip of the second
\* timer, which also ends the sequence; and a running sequence always ends.
C12_AutoSequence ==
  /\ [][ (~isAutoAnimating /\ isAutoAnimating') =>
           /\ clusterCount' = clusterCount + 1
           /\ isEscapeMode' = isEscapeMode
           /\ isServerMode' = isServerMode
           /\ timers = <<>> /\ timers' = <<"escape", "server">> ]_vars
  /\ [][ isAutoAnimating =>
           \/ UNCHANGED controls
           \/ /\ timers = <<"escape", "server">> /\ timers' = <<"server">>
              /\ isEscapeMode' = ~isEscapeMode
              /\ isAutoAnimating'
              /\ UNCHANGED <<clusterCount, isServerMode>>
           \/ /\ timers = <<"server">> /\ timers' = <<>>
              /\ isServerMode' = ~isServerMode
              /\ ~isAutoAnimating'
              /\ UNCHANGED <<clusterCount, isEscapeMode>> ]_vars
  /\ [](isAutoAnimating => timers \in {<<"escape", "server">>, <<"server">>})
  /\ (isAutoAnimating ~> ~isAutoAnimating)

\* C12 witness: an auto sequence is running, its first timer has flipped
\* escape mode on and its second timer is still pending.
C12_Witness ==
  /\ isAutoAnimating
  /\ timers = <<"server">>
  /\ isEscapeMode
  /\ clusterCount = 2

=============================================================================
